---------------------------- MODULE Spec2Model ----------------------------
(***************************************************************************)
(* Automated Expense Tracker (src/app.py).                                 *)
(*                                                                         *)
(* A text is a sequence of one-character strings.  The regular expressions *)
(* of parse_expense_data are written out as matchers over such sequences,  *)
(* an amount is held in cents (float(s) of "d+.dd" is exact to the cent    *)
(* and monotone), and a calendar date is a record [y, m, d].               *)
(***************************************************************************)
EXTENDS Integers, Sequences, FiniteSets, TLC

VARIABLES
    uploaded_file,   \* st.file_uploader's value: None or the selected document
    pc,              \* position of the script run ("idle": waiting for the user)
    now,             \* the wall clock read by datetime.now()
    raw_text,        \* the script's raw_text local
    expense_data,    \* the script's expense_data local (None before parse)
    category,        \* the script's category local
    expenses,        \* the rows of the expenses table, in insertion order
    sheet,           \* the rows appended to the spreadsheet
    page,            \* the elements the current run has put on the page
    export_pressed,  \* the export button's value in the current run
    export_calls,    \* the calls of export_to_google_sheets made by the current run
    tempfile,        \* whether TEMP_DIR/<name> exists
    run_inserts,     \* history: rows inserted while this upload stays selected
    selections       \* history: number of uploads made so far

vars == <<uploaded_file, pc, now, raw_text, expense_data, category, expenses,
          sheet, page, export_pressed, export_calls, tempfile, run_inserts,
          selections>>

None == "None"

(***************************************************************************)
(* Bounds of the model.                                                    *)
(***************************************************************************)
MaxFrags == 3        \* fragments per generated text
MaxRows == 3         \* rows the expenses table may hold
MaxUploads == 2      \* uploads per session

(***************************************************************************)
(* Characters and the str methods the code uses.                           *)
(***************************************************************************)
Digits == {"0", "1", "2", "3", "4", "5", "6", "7", "8", "9"}

Lower == {"a", "b", "c", "d", "e", "f", "g", "h", "i", "j", "k", "l", "m",
          "n", "o", "p", "q", "r", "s", "t", "u", "v", "w", "x", "y", "z"}

Upper == {"A", "B", "C", "D", "E", "F", "G", "H", "I", "J", "K", "L", "M",
          "N", "O", "P", "Q", "R", "S", "T", "U", "V", "W", "X", "Y", "Z"}

Letters == Lower \cup Upper

Whitespace == {" ", "\n", "\t"}

DigitVal(c) ==
    CASE c = "0" -> 0 [] c = "1" -> 1 [] c = "2" -> 2 [] c = "3" -> 3
      [] c = "4" -> 4 [] c = "5" -> 5 [] c = "6" -> 6 [] c = "7" -> 7
      [] c = "8" -> 8 [] c = "9" -> 9

DigitChar(n) ==
    CASE n = 0 -> "0" [] n = 1 -> "1" [] n = 2 -> "2" [] n = 3 -> "3"
      [] n = 4 -> "4" [] n = 5 -> "5" [] n = 6 -> "6" [] n = 7 -> "7"
      [] n = 8 -> "8" [] n = 9 -> "9"

LowerChar(c) ==
    IF c \notin Upper THEN c ELSE
    CASE c = "A" -> "a" [] c = "B" -> "b" [] c = "C" -> "c" [] c = "D" -> "d"
      [] c = "E" -> "e" [] c = "F" -> "f" [] c = "G" -> "g" [] c = "H" -> "h"
      [] c = "I" -> "i" [] c = "J" -> "j" [] c = "K" -> "k" [] c = "L" -> "l"
      [] c = "M" -> "m" [] c = "N" -> "n" [] c = "O" -> "o" [] c = "P" -> "p"
      [] c = "Q" -> "q" [] c = "R" -> "r" [] c = "S" -> "s" [] c = "T" -> "t"
      [] c = "U" -> "u" [] c = "V" -> "v" [] c = "W" -> "w" [] c = "X" -> "x"
      [] c = "Y" -> "y" [] c = "Z" -> "z"

\* str.lower()
lower(t) == [i \in 1..Len(t) |-> LowerChar(t[i])]

\* str.replace(',', '.')
replace_comma(t) == [i \in 1..Len(t) |-> IF t[i] = "," THEN "." ELSE t[i]]

\* str.strip()
strip(t) ==
    LET keep == {i \in 1..Len(t) : t[i] \notin Whitespace}
    IN  IF keep = {} THEN <<>>
        ELSE SubSeq(t, CHOOSE i \in keep : \A j \in keep : i <= j,
                       CHOOSE i \in keep : \A j \in keep : j <= i)

\* the `in` operator on strings
contains(t, k) ==
    \E i \in 1..(Len(t) - Len(k) + 1) :
        (k # <<>> => t[i] = k[1]) /\ SubSeq(t, i, i + Len(k) - 1) = k

\* str.split('\n')
RECURSIVE split_lines(_)
split_lines(t) ==
    LET nl == {i \in 1..Len(t) : t[i] = "\n"}
    IN  IF nl = {} THEN <<t>>
        ELSE LET i == CHOOSE i \in nl : \A j \in nl : i <= j
             IN  <<SubSeq(t, 1, i - 1)>> \o split_lines(SubSeq(t, i + 1, Len(t)))

\* str.split()[0], with <<>> for an empty list
first_word(t) ==
    LET s == strip(t)
        ws == {i \in 1..Len(s) : s[i] \in Whitespace}
    IN  IF ws = {} THEN s
        ELSE SubSeq(s, 1, (CHOOSE i \in ws : \A j \in ws : i <= j) - 1)

\* the number of characters of t from position i on that lie in class
RECURSIVE RunLen(_, _, _)
RunLen(t, i, class) ==
    IF i > Len(t) \/ t[i] \notin class THEN 0 ELSE 1 + RunLen(t, i + 1, class)

RECURSIVE ToNat(_)
ToNat(ds) ==
    IF ds = <<>> THEN 0
    ELSE 10 * ToNat(SubSeq(ds, 1, Len(ds) - 1)) + DigitVal(ds[Len(ds)])

Min(a, b) == IF a <= b THEN a ELSE b

(***************************************************************************)
(* Amounts: re.findall(r'(\d+\.\d{2})', ...), float(s), np.max.            *)
(***************************************************************************)
\* The end of the match of \d+\.\d{2} that starts at i, 0 when there is
\* none.  \d+ must take the whole digit run: any shorter take is followed
\* by a digit, not by the point.
AmountMatchEnd(t, i) ==
    LET r == RunLen(t, i, Digits)
    IN  IF /\ r >= 1
           /\ i + r + 2 <= Len(t)
           /\ t[i + r] = "."
           /\ t[i + r + 1] \in Digits
           /\ t[i + r + 2] \in Digits
        THEN i + r + 2 ELSE 0

\* re.findall: leftmost match, then on from the end of that match
RECURSIVE findall_amounts(_, _)
findall_amounts(t, from) ==
    LET starts == {i \in from..Len(t) : AmountMatchEnd(t, i) # 0}
    IN  IF starts = {} THEN <<>>
        ELSE LET i == CHOOSE i \in starts : \A j \in starts : i <= j
                 e == AmountMatchEnd(t, i)
             IN  <<SubSeq(t, i, e)>> \o findall_amounts(t, e + 1)

\* float(s) for s of the form d+.dd, in cents
float_cents(s) ==
    100 * ToNat(SubSeq(s, 1, Len(s) - 3)) + ToNat(SubSeq(s, Len(s) - 1, Len(s)))

RECURSIVE np_max(_)
np_max(xs) ==
    IF Len(xs) = 1 THEN xs[1]
    ELSE LET m == np_max(Tail(xs)) IN IF xs[1] >= m THEN xs[1] ELSE m

\* total_amount without the comma replaced
total_amount_no_replace(text) ==
    LET found == findall_amounts(text, 1)
        amounts == [i \in 1..Len(found) |-> float_cents(found[i])]
    IN  IF amounts # <<>> THEN np_max(amounts) ELSE 0

total_amount(text) ==
    LET found == findall_amounts(replace_comma(text), 1)
        amounts == [i \in 1..Len(found) |-> float_cents(found[i])]
    IN  IF amounts # <<>> THEN np_max(amounts) ELSE 0

(***************************************************************************)
(* Dates: the four patterns of date_patterns, tried in order by re.search. *)
(***************************************************************************)
\* \d{4}-\d{2}-\d{2}
IsoMatchEnd(t, i) ==
    IF /\ i + 9 <= Len(t)
       /\ \A k \in {0, 1, 2, 3, 5, 6, 8, 9} : t[i + k] \in Digits
       /\ t[i + 4] = "-"
       /\ t[i + 7] = "-"
    THEN i + 9 ELSE 0

\* \d{1,2}<sep>\d{1,2}<sep>\d{2,4}: each \d{1,2} must be a whole digit run
\* of one or two, \d{2,4} takes up to four digits of a run of at least two
NumericMatchEnd(t, i, sep) ==
    LET r1 == RunLen(t, i, Digits)
        j == i + r1 + 1
        r2 == RunLen(t, j, Digits)
        k == j + r2 + 1
        r3 == RunLen(t, k, Digits)
    IN  IF /\ r1 \in {1, 2}
           /\ i + r1 <= Len(t)
           /\ t[i + r1] = sep
           /\ r2 \in {1, 2}
           /\ j + r2 <= Len(t)
           /\ t[j + r2] = sep
           /\ r3 >= 2
        THEN k + Min(r3, 4) - 1 ELSE 0

\* [A-Za-z]{3,9}\s+\d{1,2},?\s+\d{2,4}
MonthNameMatchEnd(t, i) ==
    LET l == RunLen(t, i, Letters)
        w1 == RunLen(t, i + l, Whitespace)
        d == i + l + w1
        r1 == RunLen(t, d, Digits)
        c == d + r1
        comma == IF c <= Len(t) /\ t[c] = "," THEN 1 ELSE 0
        w2 == RunLen(t, c + comma, Whitespace)
        y == c + comma + w2
        r2 == RunLen(t, y, Digits)
    IN  IF /\ l >= 3 /\ l <= 9
           /\ w1 >= 1
           /\ r1 \in {1, 2}
           /\ w2 >= 1
           /\ r2 >= 2
        THEN y + Min(r2, 4) - 1 ELSE 0

NPatterns == 4

PatternMatchEnd(p, t, i) ==
    CASE p = 1 -> IsoMatchEnd(t, i)
      [] p = 2 -> NumericMatchEnd(t, i, "/")
      [] p = 3 -> NumericMatchEnd(t, i, "-")
      [] p = 4 -> MonthNameMatchEnd(t, i)

\* A match object, or None: hit is FALSE for None, group is match.group(0)
NoMatch == [hit |-> FALSE, group |-> <<>>]

\* re.search(pattern, text): the leftmost match, None when there is none
re_search(p, t) ==
    LET starts == {i \in 1..Len(t) : PatternMatchEnd(p, t, i) # 0}
    IN  IF starts = {} THEN NoMatch
        ELSE LET i == CHOOSE i \in starts : \A j \in starts : i <= j
             IN  [hit |-> TRUE, group |-> SubSeq(t, i, PatternMatchEnd(p, t, i))]

\* the loop over date_patterns, with its break
RECURSIVE date_found_from(_, _)
date_found_from(p, t) ==
    IF p > NPatterns THEN NoMatch
    ELSE LET match == re_search(p, t)
         IN  IF match.hit THEN match ELSE date_found_from(p + 1, t)

\* date_found with the slash pattern tried before the ISO pattern
date_found_slash_first(text) ==
    LET match == re_search(2, text)
    IN  IF match.hit THEN match ELSE date_found_from(1, text)

date_found(text) == date_found_from(1, text)

(***************************************************************************)
(* pd.to_datetime(date_found, errors='coerce').strftime('%Y-%m-%d')        *)
(***************************************************************************)
NaT == [nat |-> TRUE, y |-> 0, m |-> 0, d |-> 0]

Timestamp(y, m, d) == [nat |-> FALSE, y |-> y, m |-> m, d |-> d]

IsLeap(y) == (y % 4 = 0 /\ y % 100 # 0) \/ y % 400 = 0

DaysIn(y, m) ==
    IF m = 2 THEN (IF IsLeap(y) THEN 29 ELSE 28)
    ELSE IF m \in {4, 6, 9, 11} THEN 30 ELSE 31

\* a date pandas.Timestamp can hold (the years it holds in full)
IsCalendarDate(y, m, d) ==
    /\ y >= 1678 /\ y <= 2261
    /\ m >= 1 /\ m <= 12
    /\ d >= 1 /\ d <= DaysIn(y, m)

\* a year as written: two digits pivot at 69 as %y does, three digits are a
\* year no Timestamp holds
YearOf(ds) ==
    LET n == ToNat(ds)
    IN  IF Len(ds) = 2 THEN (IF n <= 68 THEN 2000 + n ELSE 1900 + n) ELSE n

MonthNames ==
    << {<<"j", "a", "n">>, <<"j", "a", "n", "u", "a", "r", "y">>},   \* "jan", "january"
       {<<"f", "e", "b">>, <<"f", "e", "b", "r", "u", "a", "r", "y">>},   \* "feb", "february"
       {<<"m", "a", "r">>, <<"m", "a", "r", "c", "h">>},
       {<<"a", "p", "r">>, <<"a", "p", "r", "i", "l">>},
       {<<"m", "a", "y">>},
       {<<"j", "u", "n">>, <<"j", "u", "n", "e">>},
       {<<"j", "u", "l">>, <<"j", "u", "l", "y">>},
       {<<"a", "u", "g">>, <<"a", "u", "g", "u", "s", "t">>},   \* "aug", "august"
       {<<"s", "e", "p">>, <<"s", "e", "p", "t">>, <<"s", "e", "p", "t", "e", "m", "b", "e", "r">>},   \* "sep", "sept", "september"
       {<<"o", "c", "t">>, <<"o", "c", "t", "o", "b", "e", "r">>},   \* "oct", "october"
       {<<"n", "o", "v">>, <<"n", "o", "v", "e", "m", "b", "e", "r">>},   \* "nov", "november"
       {<<"d", "e", "c">>, <<"d", "e", "c", "e", "m", "b", "e", "r">>} >>   \* "dec", "december"

\* 0 when the word names no month
MonthOf(word) ==
    LET ms == {m \in 1..12 : lower(word) \in MonthNames[m]}
    IN  IF ms = {} THEN 0 ELSE CHOOSE m \in ms : TRUE

\* month first, and day first when only that reading is a date
NumericDate(a, b, y) ==
    IF IsCalendarDate(y, a, b) THEN Timestamp(y, a, b)
    ELSE IF IsCalendarDate(y, b, a) THEN Timestamp(y, b, a)
    ELSE NaT

\* pd.to_datetime(s, errors='coerce') on a string one of the date patterns
\* matched: a Timestamp, or NaT when s is no date
to_datetime(s) ==
    IF s[1] \in Letters THEN
        LET l == RunLen(s, 1, Letters)
            d == l + 1 + RunLen(s, l + 1, Whitespace)
            r1 == RunLen(s, d, Digits)
            yd == {i \in 1..Len(s) : \A j \in i..Len(s) : s[j] \in Digits}
            ys == CHOOSE i \in yd : \A j \in yd : i <= j
            m == MonthOf(SubSeq(s, 1, l))
            y == YearOf(SubSeq(s, ys, Len(s)))
            dd == ToNat(SubSeq(s, d, d + r1 - 1))
        IN  IF m # 0 /\ IsCalendarDate(y, m, dd) THEN Timestamp(y, m, dd) ELSE NaT
    ELSE IF Len(s) = 10 /\ s[5] = "-" THEN
        LET y == ToNat(SubSeq(s, 1, 4))
            m == ToNat(SubSeq(s, 6, 7))
            d == ToNat(SubSeq(s, 9, 10))
        IN  IF IsCalendarDate(y, m, d) THEN Timestamp(y, m, d) ELSE NaT
    ELSE
        LET r1 == RunLen(s, 1, Digits)
            r2 == RunLen(s, r1 + 2, Digits)
        IN  NumericDate(ToNat(SubSeq(s, 1, r1)),
                        ToNat(SubSeq(s, r1 + 2, r1 + r2 + 1)),
                        YearOf(SubSeq(s, r1 + r2 + 3, Len(s))))

TwoDigits(n) == <<DigitChar(n \div 10), DigitChar(n % 10)>>

\* the result of a call: raised is TRUE when it raised, value is what it
\* returned otherwise
Returned(v) == [raised |-> FALSE, value |-> v]
RaisedError == [raised |-> TRUE, value |-> <<>>]

\* .strftime('%Y-%m-%d'): NaT.strftime raises ValueError
strftime(ts) ==
    IF ts.nat THEN RaisedError
    ELSE Returned(<<DigitChar(ts.y \div 1000), DigitChar((ts.y \div 100) % 10),
                    DigitChar((ts.y \div 10) % 10), DigitChar(ts.y % 10), "-">>
                  \o TwoDigits(ts.m) \o <<"-">> \o TwoDigits(ts.d))

\* date_parsed without the try block: the ValueError leaves the function
date_parsed_unguarded(text, clock) ==
    LET found == date_found(text)
    IN  IF found.hit THEN strftime(to_datetime(found.group)) ELSE strftime(clock)

\* date_parsed that formats NaT instead of falling back
date_parsed_nat(text, clock) ==
    LET found == date_found(text)
        r == strftime(to_datetime(found.group))
    IN  IF found.hit THEN (IF r.raised THEN Returned(<<"N", "a", "T">>) ELSE r)   \* "NaT"
        ELSE strftime(clock)

\* date_parsed: datetime.now() is the default, kept when nothing matched
\* and when the try block raised (the bare except passes)
date_parsed(text, clock) ==
    LET default == strftime(clock)
        found == date_found(text)
    IN  IF found.hit
        THEN LET r == strftime(to_datetime(found.group))
             IN  IF r.raised THEN default ELSE r
        ELSE default

(***************************************************************************)
(* Vendor and description.                                                 *)
(***************************************************************************)
\* re.match(r'^((\$?\d+\.?\d*)|(\d{1,2}[/-]\d{1,2}))', line)
numeric_prefix(line) ==
    LET r == RunLen(line, 1, Digits)
    IN  \/ /\ Len(line) >= 1
           /\ \/ line[1] \in Digits
              \/ line[1] = "$" /\ Len(line) >= 2 /\ line[2] \in Digits
        \/ /\ r \in {1, 2}
           /\ r + 2 <= Len(line)
           /\ line[r + 1] \in {"/", "-"}
           /\ line[r + 2] \in Digits

\* vendor_line with the boilerplate words compared case-sensitively
vendor_line_case(line) ==
    /\ ~numeric_prefix(line)
    /\ Len(line) > 3
    /\ ~contains(line, <<"r", "e", "c", "e", "i", "p", "t">>)   \* "receipt"
    /\ ~contains(line, <<"t", "a", "x">>)
    /\ first_word(line) # <<>>

\* the body of the loop over lines: TRUE when the line sets vendor
vendor_line(line) ==
    /\ ~numeric_prefix(line)
    /\ Len(line) > 3
    /\ ~contains(lower(line), <<"r", "e", "c", "e", "i", "p", "t">>)   \* "receipt"
    /\ ~contains(lower(line), <<"t", "a", "x">>)
    /\ first_word(line) # <<>>

Unknown == <<"U", "n", "k", "n", "o", "w", "n">>

RECURSIVE vendor_from(_)
vendor_from(lines) ==
    IF lines = <<>> THEN Unknown
    ELSE LET line == strip(Head(lines))
         IN  IF vendor_line(line) THEN first_word(line)
             ELSE vendor_from(Tail(lines))

vendor(text) == vendor_from(split_lines(strip(text)))

MaxDescription == 200

description(text) == SubSeq(strip(text), 1, Min(Len(strip(text)), MaxDescription))

\* the record returned, or the exception that left the function
parse_expense_data(text, clock) ==
    LET date == date_parsed(text, clock)
    IN  IF date.raised THEN RaisedError
        ELSE Returned([amount |-> total_amount(text),
                       date |-> date.value,
                       vendor |-> vendor(text),
                       description |-> description(text)])

(***************************************************************************)
(* Categories.                                                             *)
(***************************************************************************)
EXPENSE_CATEGORIES ==
    << [name |-> "food",
        keywords |-> <<
          <<"r", "e", "s", "t", "a", "u", "r", "a", "n", "t">>,   \* "restaurant"
          <<"c", "a", "f", "e">>,
          <<"p", "i", "z", "z", "a">>,
          <<"b", "u", "r", "g", "e", "r">>,
          <<"c", "o", "f", "f", "e", "e">>,
          <<"g", "r", "o", "c", "e", "r", "y">>,
          <<"s", "u", "p", "e", "r", "m", "a", "r", "k", "e", "t">>,   \* "supermarket"
          <<"f", "r", "e", "s", "h", " ", "f", "o", "o", "d", "s">> >>],   \* "fresh foods"
       [name |-> "transportation",
        keywords |-> <<
          <<"u", "b", "e", "r">>,
          <<"l", "y", "f", "t">>,
          <<"t", "a", "x", "i">>,
          <<"g", "a", "s">>,
          <<"f", "u", "e", "l">>,
          <<"p", "a", "r", "k", "i", "n", "g">>,
          <<"m", "e", "t", "r", "o">> >>],
       [name |-> "shopping",
        keywords |-> <<
          <<"a", "m", "a", "z", "o", "n">>,
          <<"w", "a", "l", "m", "a", "r", "t">>,
          <<"t", "a", "r", "g", "e", "t">>,
          <<"m", "a", "l", "l">>,
          <<"s", "t", "o", "r", "e">>,
          <<"s", "h", "o", "p">> >>],
       [name |-> "utilities",
        keywords |-> <<
          <<"e", "l", "e", "c", "t", "r", "i", "c">>,
          <<"w", "a", "t", "e", "r">>,
          <<"i", "n", "t", "e", "r", "n", "e", "t">>,
          <<"p", "h", "o", "n", "e">>,
          <<"c", "a", "b", "l", "e">> >>],
       [name |-> "entertainment",
        keywords |-> <<
          <<"m", "o", "v", "i", "e">>,
          <<"t", "h", "e", "a", "t", "e", "r">>,
          <<"n", "e", "t", "f", "l", "i", "x">>,
          <<"s", "p", "o", "t", "i", "f", "y">>,
          <<"g", "a", "m", "e">> >>],
       [name |-> "healthcare",
        keywords |-> <<
          <<"p", "h", "a", "r", "m", "a", "c", "y">>,
          <<"d", "o", "c", "t", "o", "r">>,
          <<"h", "o", "s", "p", "i", "t", "a", "l">>,
          <<"c", "l", "i", "n", "i", "c">>,
          <<"m", "e", "d", "i", "c", "a", "l">> >>],
       [name |-> "other", keywords |-> <<>>] >>

\* any(keyword in text for keyword in keywords)
any_keyword(keywords, text) ==
    \E k \in 1..Len(keywords) : contains(text, keywords[k])

RECURSIVE categorize_from(_, _)
categorize_from(c, text) ==
    IF c > Len(EXPENSE_CATEGORIES) THEN "other"
    ELSE IF any_keyword(EXPENSE_CATEGORIES[c].keywords, text)
         THEN EXPENSE_CATEGORIES[c].name
         ELSE categorize_from(c + 1, text)

\* categorize_expense without the lower-casing
categorize_expense_case(v, d) == categorize_from(1, v \o <<" ">> \o d)

categorize_expense(v, d) == categorize_from(1, lower(v \o <<" ">> \o d))

(***************************************************************************)
(* The script's collaborators: OCR, the spreadsheet service, the clock.    *)
(***************************************************************************)
\* the documents a user may upload, by file name, with the text of their
\* pages as tesseract reads it
DocPages(doc) ==
    CASE doc = "receipt.png" -> <<
           <<"$", "1", "2", ".", "5", "0", "\n", "R", "E", "C", "E", "I", "P", "T", "\n", "J", "o", "e", "'", "s", " ", "D", "i", "n", "e", "r", "\n", "0", "3", "/", "0", "7", "/", "2", "0", "2", "3", "\n", "T", "a", "x", ":", " ", "1", ".", "0", "0">> >>   \* "$12.50\nRECEIPT\nJoe's Diner\n03/07/2023\nTax: 1.00"
      [] doc = "blank.png" -> << <<>> >>
      [] doc = "blank.pdf" -> << <<" ">>, <<>> >>
      [] doc = "invoice.pdf" -> <<
           <<"U", "b", "e", "r", " ", "P", "i", "z", "z", "a">>,   \* "Uber Pizza"
           <<"T", "o", "t", "a", "l", " ", "4", "5", ",", "0", "0">> >>   \* "Total 45,00"

Docs == {"receipt.png", "blank.png", "blank.pdf", "invoice.pdf"}

is_pdf(doc) == doc \in {"blank.pdf", "invoice.pdf"}

\* pytesseract.image_to_string(image)
extract_text_from_image(doc) == DocPages(doc)[1]

\* text += pytesseract.image_to_string(img) + "\n" over the pages
RECURSIVE pdf_text(_)
pdf_text(pages) ==
    IF pages = <<>> THEN <<>> ELSE Head(pages) \o <<"\n">> \o pdf_text(Tail(pages))

extract_text_from_pdf(doc) == pdf_text(DocPages(doc))

\* the values datetime.now() may take
Clock == {Timestamp(2026, 11, 3), Timestamp(2027, 2, 28)}

\* what the spreadsheet service does with one export
ServiceOutcomes == {"ok", "service_raises", "append_raises"}

\* export_to_google_sheets with the service obtained outside the try block
export_service_outside_try(outcome) ==
    IF outcome = "ok" THEN Returned(TRUE)
    ELSE IF outcome = "service_raises" THEN [raised |-> TRUE, value |-> FALSE]
    ELSE Returned(FALSE)

\* export_to_google_sheets: every exception of the try block is caught and
\* turned into False
export_to_google_sheets(outcome) ==
    IF outcome = "ok" THEN Returned(TRUE) ELSE Returned(FALSE)

(***************************************************************************)
(* The script (lines 173-309): a run goes top to bottom, and every widget  *)
(* interaction starts a new run.                                           *)
(***************************************************************************)
NoData == [amount |-> 0, date |-> <<>>, vendor |-> <<>>, description |-> <<>>]

\* the test of line 196 without the strip
no_text_unstripped(text) == text = <<>>

\* not raw_text.strip()
no_text(text) == strip(text) = <<>>

Row(data, cat, text, name) ==
    [date |-> data.date, amount |-> data.amount, vendor |-> data.vendor,
     category |-> cat, raw_text |-> text, filename |-> name]

SheetRow(data, cat) == <<data.date, data.amount, data.vendor, cat>>

Init ==
    /\ uploaded_file = None
    /\ pc = "idle"
    /\ now = Timestamp(2026, 11, 3)
    /\ raw_text = <<>>
    /\ expense_data = NoData
    /\ category = None
    /\ expenses = <<>>
    /\ sheet = <<>>
    /\ page = {}
    /\ export_pressed = FALSE
    /\ export_calls = <<>>
    /\ tempfile = FALSE
    /\ run_inserts = 0
    /\ selections = 0

\* a new run of the script: its locals and its page start empty
BeginRun(pressed) ==
    /\ pc = "idle"
    /\ pc' = "upload"
    /\ raw_text' = <<>>
    /\ expense_data' = NoData
    /\ category' = None
    /\ page' = {}
    /\ export_pressed' = pressed
    /\ export_calls' = <<>>
    /\ UNCHANGED <<now, expenses, sheet, tempfile>>

\* the user picks a file in st.file_uploader
Upload ==
    /\ selections < MaxUploads
    /\ Len(expenses) < MaxRows
    /\ \E doc \in Docs : uploaded_file' = doc
    /\ run_inserts' = 0
    /\ selections' = selections + 1
    /\ BeginRun(FALSE)

\* the user clears st.file_uploader
RemoveFile ==
    /\ uploaded_file # None
    /\ uploaded_file' = None
    /\ run_inserts' = 0
    /\ UNCHANGED selections
    /\ BeginRun(FALSE)

\* the user presses "Export Latest Expense to Google Sheets"
PressExport ==
    /\ "export_button" \in page
    /\ Len(expenses) < MaxRows
    /\ UNCHANGED <<uploaded_file, run_inserts, selections>>
    /\ BeginRun(TRUE)

\* the user presses "Apply Filters", or changes the category or the dates
PressFilter ==
    /\ "filter_widgets" \in page
    /\ uploaded_file # None => Len(expenses) < MaxRows
    /\ UNCHANGED <<uploaded_file, run_inserts, selections>>
    /\ BeginRun(FALSE)

\* lines 183-187
SaveUpload ==
    /\ pc = "upload"
    /\ IF uploaded_file # None
       THEN tempfile' = TRUE /\ pc' = "ocr"
       ELSE tempfile' = tempfile /\ pc' = "dashboard"
    /\ UNCHANGED <<uploaded_file, now, raw_text, expense_data, category, expenses,
                   sheet, page, export_pressed, export_calls, run_inserts,
                   selections>>

\* lines 191-194: the OCR functions return "" after st.error when they raise
Ocr ==
    /\ pc = "ocr"
    /\ \/ /\ raw_text' = IF is_pdf(uploaded_file)
                           THEN extract_text_from_pdf(uploaded_file)
                           ELSE extract_text_from_image(uploaded_file)
          /\ page' = page
       \/ /\ raw_text' = <<>>
          /\ page' = page \cup {"error_ocr"}
    /\ pc' = "check"
    /\ UNCHANGED <<uploaded_file, now, expense_data, category, expenses, sheet,
                   export_pressed, export_calls, tempfile, run_inserts, selections>>

\* lines 196-197
NoText ==
    /\ pc = "check"
    /\ no_text(raw_text)
    /\ page' = page \cup {"warning_no_text"}
    /\ pc' = "cleanup"
    /\ UNCHANGED <<uploaded_file, now, raw_text, expense_data, category, expenses,
                   sheet, export_pressed, export_calls, tempfile, run_inserts,
                   selections>>

\* lines 199-200; an exception leaves the with block through the finally
\* clause
Parse ==
    /\ pc = "check"
    /\ ~no_text(raw_text)
    /\ \E clock \in Clock : \E r \in {parse_expense_data(raw_text, clock)} :
        /\ now' = clock
        /\ IF r.raised
           THEN /\ page' = page \cup {"exception"}
                /\ pc' = "cleanup"
                /\ UNCHANGED <<expense_data, category>>
           ELSE /\ expense_data' = r.value
                /\ category' = categorize_expense(r.value.vendor, r.value.description)
                /\ pc' = "insert"
                /\ page' = page
    /\ UNCHANGED <<uploaded_file, raw_text, expenses, sheet, export_pressed,
                   export_calls, tempfile, run_inserts, selections>>

\* lines 202-217, and the button of line 219; when sqlite raises, the
\* exception leaves the with block through the finally clause
Insert ==
    /\ pc = "insert"
    /\ \/ /\ expenses' = Append(expenses,
                                Row(expense_data, category, raw_text, uploaded_file))
          /\ run_inserts' = run_inserts + 1
          /\ page' = page \cup {"success_stored", "export_button"}
          /\ pc' = IF export_pressed THEN "export" ELSE "cleanup"
       \/ /\ page' = page \cup {"exception"}
          /\ pc' = "cleanup"
          /\ UNCHANGED <<expenses, run_inserts>>
    /\ UNCHANGED <<uploaded_file, now, raw_text, expense_data, category, sheet,
                   export_pressed, export_calls, tempfile, selections>>

\* Export that deletes the stored row when the export fails
ExportRollback ==
    /\ pc = "export"
    /\ \E outcome \in ServiceOutcomes :
          LET r == export_to_google_sheets(outcome)
          IN  /\ export_calls' = Append(export_calls, [outcome |-> outcome, result |-> r])
              /\ sheet' = IF outcome = "ok"
                          THEN Append(sheet, SheetRow(expense_data, category))
                          ELSE sheet
              /\ expenses' = IF r.value THEN expenses
                             ELSE SubSeq(expenses, 1, Len(expenses) - 1)
              /\ page' = page \cup
                    (IF r.value THEN {"success_exported"}
                     ELSE {"error_exporting", "error_failed_export"})
    /\ pc' = "cleanup"
    /\ UNCHANGED <<uploaded_file, now, raw_text, expense_data, category,
                   export_pressed, tempfile, run_inserts, selections>>

\* lines 220-224
Export ==
    /\ pc = "export"
    /\ \E outcome \in ServiceOutcomes :
          LET r == export_to_google_sheets(outcome)
          IN  /\ export_calls' = Append(export_calls, [outcome |-> outcome, result |-> r])
              /\ sheet' = IF outcome = "ok"
                          THEN Append(sheet, SheetRow(expense_data, category))
                          ELSE sheet
              /\ page' = page \cup
                    (IF r.raised THEN {"exception"}
                     ELSE IF r.value THEN {"success_exported"}
                     ELSE {"error_exporting", "error_failed_export"})
    /\ pc' = "cleanup"
    /\ UNCHANGED <<uploaded_file, now, raw_text, expense_data, category, expenses,
                   export_pressed, tempfile, run_inserts, selections>>

\* lines 225-227; an exception ends the run here
Cleanup ==
    /\ pc = "cleanup"
    /\ tempfile' = FALSE
    /\ pc' = IF "exception" \in page THEN "idle" ELSE "dashboard"
    /\ UNCHANGED <<uploaded_file, now, raw_text, expense_data, category, expenses,
                   sheet, page, export_pressed, export_calls, run_inserts,
                   selections>>

\* lines 229-309: the dashboard and the filters read the table
Dashboard ==
    /\ pc = "dashboard"
    /\ page' = page \cup (IF expenses = <<>> THEN {"info_no_expenses"}
                          ELSE {"recent_expenses", "filter_widgets"})
    /\ pc' = "idle"
    /\ UNCHANGED <<uploaded_file, now, raw_text, expense_data, category, expenses,
                   sheet, export_pressed, export_calls, tempfile, run_inserts,
                   selections>>

Next ==
    \/ Upload
    \/ RemoveFile
    \/ PressExport
    \/ PressFilter
    \/ SaveUpload
    \/ Ocr
    \/ NoText
    \/ Parse
    \/ Insert
    \/ Export
    \/ Cleanup
    \/ Dashboard

Spec == Init /\ [][Next]_vars

(***************************************************************************)
(* The extraction pipeline on its own: parse_expense_data and              *)
(* categorize_expense applied to generated texts.                          *)
(***************************************************************************)
Fragments ==
    { <<"$", "1", ",", "2", "3", "4", ".", "5", "6", "\n">>,
      <<"2", "0", "2", "4", "-", "0", "1", "-", "0", "5", " ">>,   \* "2024-01-05 "
      <<"0", "3", "/", "0", "7", "/", "2", "0", "2", "3", "\n">>,   \* "03/07/2023\n"
      <<"2", "0", "2", "4", "-", "1", "3", "-", "4", "5", "\n">>,   \* "2024-13-45\n"
      <<"R", "E", "C", "E", "I", "P", "T", "\n">>,
      <<"J", "o", "e", "'", "s", " ", "S", "h", "o", "p", "\n">>,   \* "Joe's Shop\n"
      <<"T", "a", "x", ":", " ", "3", ".", "2", "0", "\n">>,
      <<"G", "a", "s", " ">>,
      <<"P", "i", "z", "z", "a", "\n">>,
      <<"M", "a", "r", " ", "5", ",", " ", "2", "0", "2", "4", "\n">>,   \* "Mar 5, 2024\n"
      <<"5", "-", "1", "-", "2", "4", " ">> }

\* the concatenations of at most n fragments
RECURSIVE TextsOf(_)
TextsOf(n) ==
    IF n = 0 THEN {<<>>}
    ELSE LET shorter == TextsOf(n - 1)
         IN  shorter \cup {t \o f : t \in shorter, f \in Fragments}

InitParse ==
    /\ uploaded_file = None
    /\ pc = "call"
    /\ now = Timestamp(2026, 11, 3)
    /\ raw_text \in TextsOf(MaxFrags)
    /\ expense_data = NoData
    /\ category = None
    /\ expenses = <<>>
    /\ sheet = <<>>
    /\ page = {}
    /\ export_pressed = FALSE
    /\ export_calls = <<>>
    /\ tempfile = FALSE
    /\ run_inserts = 0
    /\ selections = 0

\* lines 199-200 on any text
Extract ==
    /\ pc = "call"
    /\ \E clock \in Clock : \E r \in {parse_expense_data(raw_text, clock)} :
        /\ now' = clock
        /\ IF r.raised
           THEN /\ pc' = "raised"
                /\ UNCHANGED <<expense_data, category>>
           ELSE /\ expense_data' = r.value
                /\ category' = categorize_expense(r.value.vendor, r.value.description)
                /\ pc' = "returned"
    /\ UNCHANGED <<uploaded_file, raw_text, expenses, sheet, page, export_pressed,
                   export_calls, tempfile, run_inserts, selections>>

NextParse == Extract

SpecParse == InitParse /\ [][NextParse]_vars

(***************************************************************************)
(* Properties of parse_expense_data and categorize_expense (SpecParse).    *)
(***************************************************************************)
\* a string YYYY-MM-DD that names a day of the calendar
IsIsoDate(s) ==
    /\ Len(s) = 10
    /\ \A k \in {1, 2, 3, 4, 6, 7, 9, 10} : s[k] \in Digits
    /\ s[5] = "-" /\ s[8] = "-"
    /\ LET y == ToNat(SubSeq(s, 1, 4))
           m == ToNat(SubSeq(s, 6, 7))
           d == ToNat(SubSeq(s, 9, 10))
       IN  m \in 1..12 /\ d \in 1..DaysIn(y, m)

\* C1: for every input text parse_expense_data returns (it does not raise),
\* and the record it returns has amount >= 0, a non-empty vendor and a date
\* that is a valid calendar date written YYYY-MM-DD.
C1_ParseTotal ==
    /\ pc # "raised"
    /\ pc = "returned" =>
          /\ expense_data.amount >= 0
          /\ expense_data.vendor # <<>>
          /\ IsIsoDate(expense_data.date)

\* every field at its default: no amount, no date pattern, no vendor line
C1_Witness ==
    /\ pc = "returned"
    /\ raw_text # <<>>
    /\ expense_data.amount = 0
    /\ expense_data.vendor = Unknown
    /\ expense_data.date = strftime(now).value

\* digits, a point, two digits
IsAmountForm(s) ==
    /\ Len(s) >= 4
    /\ s[Len(s) - 2] = "."
    /\ \A k \in 1..Len(s) : k # Len(s) - 2 => s[k] \in Digits

\* the end of the token of that form starting at i, 0 when none starts there
TokenEnd(t, i) ==
    LET ends == {e \in (i + 3)..Len(t) : IsAmountForm(SubSeq(t, i, e))}
    IN  IF t[i] \notin Digits \/ ends = {} THEN 0 ELSE CHOOSE e \in ends : TRUE

\* the tokens a left-to-right scan finds from position i on, none of them
\* starting before position free: the tokens do not overlap
RECURSIVE ScanTokens(_, _, _)
ScanTokens(t, i, free) ==
    IF i > Len(t) THEN {}
    ELSE IF i >= free /\ TokenEnd(t, i) # 0
         THEN {SubSeq(t, i, TokenEnd(t, i))} \cup ScanTokens(t, i + 1, TokenEnd(t, i) + 1)
         ELSE ScanTokens(t, i + 1, free)

TokenCents(s) ==
    100 * ToNat(SubSeq(s, 1, Len(s) - 3)) + ToNat(SubSeq(s, Len(s) - 1, Len(s)))

TokenValues(text) ==
    {TokenCents(s) : s \in ScanTokens(replace_comma(text), 1, 1)}

\* C2: the amount is the maximum over the tokens "digits, point, two digits"
\* found in the text with every comma replaced by a point, and 0.0 when the
\* text holds no such token.
C2_AmountIsMax ==
    pc = "returned" =>
        LET vs == TokenValues(raw_text)
        IN  IF vs = {} THEN expense_data.amount = 0
            ELSE /\ expense_data.amount \in vs
                 /\ \A v \in vs : v <= expense_data.amount

\* three different amounts, one of them written with a comma, the largest kept
C2_Witness ==
    /\ pc = "returned"
    /\ Cardinality(TokenValues(raw_text)) >= 3
    /\ \E i \in 1..Len(raw_text) : raw_text[i] = ","
    /\ expense_data.amount = 456

\* the positions at which pattern p matches
MatchStarts(p, t) == {i \in 1..Len(t) : PatternMatchEnd(p, t, i) # 0}

\* the patterns that match somewhere in the text
MatchingPatterns(t) == {p \in 1..NPatterns : MatchStarts(p, t) # {}}

\* the first occurrence of the highest-priority pattern that matches
Candidate(t) ==
    LET ps == MatchingPatterns(t)
        p == CHOOSE q \in ps : \A r \in ps : q <= r
        starts == MatchStarts(p, t)
        i == CHOOSE j \in starts : \A k \in starts : j <= k
    IN  SubSeq(t, i, PatternMatchEnd(p, t, i))

\* C3: the date candidate is the first occurrence of the highest-priority
\* pattern (ISO, slash, hyphen, month name) that matches anywhere in the
\* text; no lower-priority pattern is consulted, so a text with an ISO date
\* and a slash date yields the ISO date wherever the two stand.
C3_DatePriority ==
    pc = "returned" =>
        LET ps == MatchingPatterns(raw_text)
            found == date_found(raw_text)
        IN  /\ found.hit <=> ps # {}
            /\ ps # {} =>
                  LET c == Candidate(raw_text)
                  IN  /\ found.group = c
                      /\ ~to_datetime(c).nat =>
                            expense_data.date = strftime(to_datetime(c)).value
                      /\ {1, 2} \subseteq ps => Len(c) = 10 /\ c[5] = "-"

\* a slash date stands before an ISO date, and the ISO date is returned
C3_Witness ==
    /\ pc = "returned"
    /\ {1, 2} \subseteq MatchingPatterns(raw_text)
    /\ \E i \in MatchStarts(2, raw_text) : \A j \in MatchStarts(1, raw_text) : i < j
    /\ expense_data.date = <<"2", "0", "2", "4", "-", "0", "1", "-", "0", "5">>   \* "2024-01-05"

\* C4: when no date pattern matches, or the matched substring is no
\* calendar date, the date is the current system date written YYYY-MM-DD;
\* the date is never null and never a not-a-time marker, and nothing is
\* raised.
C4_DateFallback ==
    /\ pc # "raised"
    /\ pc = "returned" =>
          /\ (\/ MatchingPatterns(raw_text) = {}
              \/ to_datetime(Candidate(raw_text)).nat)
                => expense_data.date = strftime(now).value
          /\ expense_data.date # <<>>
          /\ expense_data.date # <<"N", "a", "T">>
          /\ IsIsoDate(expense_data.date)

\* a pattern matched a substring that is no date, and today's date is returned
C4_Witness ==
    /\ pc = "returned"
    /\ MatchingPatterns(raw_text) # {}
    /\ to_datetime(Candidate(raw_text)).nat
    /\ expense_data.date = strftime(now).value

\* optional "$" then a digit, or digits "/" or "-" digit
StartsNumeric(line) ==
    \/ line # <<>> /\ Head(line) \in Digits
    \/ Len(line) >= 2 /\ line[1] = "$" /\ line[2] \in Digits

\* a line, stripped of the whitespace around it, that passes every filter
Survives(line) ==
    /\ ~StartsNumeric(line)
    /\ Len(line) >= 4
    /\ ~contains(lower(line), <<"r", "e", "c", "e", "i", "p", "t">>)   \* "receipt"
    /\ ~contains(lower(line), <<"t", "a", "x">>)

\* the characters of a line before its first whitespace
FirstWord(line) ==
    LET inked == {line[i] : i \in 1..Len(line)} \ Whitespace
    IN  SubSeq(line, 1, RunLen(line, 1, inked))

\* C5: the vendor is the first whitespace-delimited word of the first line,
\* top to bottom, that does not start with a numeric token, has at least 4
\* characters and contains neither "receipt" nor "tax" in any case; it is
\* "Unknown" when no line passes.  (A line is taken without the whitespace
\* around it.)
C5_Vendor ==
    pc = "returned" =>
        LET lines == split_lines(raw_text)
            ok == {i \in 1..Len(lines) : Survives(strip(lines[i]))}
        IN  IF ok = {} THEN expense_data.vendor = Unknown
            ELSE LET i == CHOOSE j \in ok : \A k \in ok : j <= k
                 IN  expense_data.vendor = FirstWord(strip(lines[i]))

\* an amount line and a RECEIPT line are skipped, the third line names the vendor
C5_Witness ==
    /\ pc = "returned"
    /\ raw_text = <<"$", "1", ",", "2", "3", "4", ".", "5", "6", "\n", "R", "E", "C", "E", "I", "P", "T", "\n", "J", "o", "e", "'", "s", " ", "S", "h", "o", "p", "\n">>   \* "$1,234.56\nRECEIPT\nJoe's Shop\n"
    /\ expense_data.vendor = <<"J", "o", "e", "'", "s">>

Taxonomy ==
    <<"food", "transportation", "shopping", "utilities", "entertainment",
      "healthcare", "other">>

\* the categories, by position in the taxonomy, with a keyword in the text
Matching(text) ==
    {c \in 1..Len(EXPENSE_CATEGORIES) :
        \E k \in 1..Len(EXPENSE_CATEGORIES[c].keywords) :
            contains(text, EXPENSE_CATEGORIES[c].keywords[k])}

\* C6: categorize_expense returns the first category, in the order food,
\* transportation, shopping, utilities, entertainment, healthcare, other,
\* with a keyword that is a substring of lower(vendor + ' ' + description),
\* and "other" when no keyword occurs: always one label of the taxonomy.
C6_Category ==
    /\ [c \in 1..Len(EXPENSE_CATEGORIES) |-> EXPENSE_CATEGORIES[c].name] = Taxonomy
    /\ pc = "returned" =>
          LET text == lower(expense_data.vendor \o <<" ">> \o expense_data.description)
              ms == Matching(text)
          IN  /\ \E c \in 1..Len(Taxonomy) : category = Taxonomy[c]
              /\ IF ms = {} THEN category = "other"
                 ELSE category = Taxonomy[CHOOSE c \in ms : \A d \in ms : c <= d]

\* "Pizza" and "Gas" both occur, with capitals, and the category is food
C6_Witness ==
    /\ pc = "returned"
    /\ contains(raw_text, <<"G", "a", "s">>)
    /\ contains(raw_text, <<"P", "i", "z", "z", "a">>)
    /\ category = "food"

(***************************************************************************)
(* Properties of the script (Spec).                                        *)
(***************************************************************************)
\* the run has OCR's answer for the uploaded document, and it is blank
BlankRun ==
    /\ pc \in {"check", "cleanup", "dashboard"}
    /\ uploaded_file # None
    /\ \A i \in 1..Len(raw_text) : raw_text[i] \in Whitespace

\* C7: when OCR returns empty or whitespace-only text (also when OCR itself
\* failed), a warning is shown, parse_expense_data is not called, no row is
\* inserted and no export is offered for that document.
C7_BlankText ==
    [][BlankRun =>
          /\ "warning_no_text" \in page'
          /\ expense_data' = NoData
          /\ expenses' = expenses
          /\ sheet' = sheet
          /\ "export_button" \notin page']_vars

\* whitespace-only text was read, the run is over, nothing was stored
C7_Witness ==
    /\ pc = "idle"
    /\ uploaded_file = "blank.pdf"
    /\ raw_text # <<>>
    /\ "warning_no_text" \in page
    /\ "export_button" \notin page
    /\ expenses = <<>>

\* C8: while the same uploaded document stays selected, over the first run
\* and every rerun, exactly one row is inserted for it.
C8_OneRowPerDocument ==
    /\ run_inserts <= 1
    /\ (pc = "idle" /\ uploaded_file # None /\ "success_stored" \in page) =>
          run_inserts = 1

\* C9: export_to_google_sheets never raises; it returns True only when the
\* append completed, and False whenever obtaining the service or the append
\* raised.
C9_ExportBoolean ==
    \A i \in 1..Len(export_calls) :
        LET c == export_calls[i]
        IN  /\ ~c.result.raised
            /\ "exception" \notin page
            /\ c.result.value =>
                  /\ c.outcome = "ok"
                  /\ sheet # <<>>
                  /\ sheet[Len(sheet)] = SheetRow(expense_data, category)
            /\ c.outcome \in {"service_raises", "append_raises"} =>
                  /\ ~c.result.value
                  /\ "error_failed_export" \in page

\* the append raised and the caller was told False
C9_Witness ==
    /\ export_calls # <<>>
    /\ export_calls[1].outcome = "append_raises"
    /\ ~export_calls[1].result.value
    /\ "error_failed_export" \in page

\* C10: an export is attempted only after the record's insert is committed,
\* once and without retry, and a failed export leaves the expenses table
\* unchanged.
C10_ExportAfterCommit ==
    [][export_calls' # export_calls /\ export_calls' # <<>> =>
          /\ Len(export_calls') = 1
          /\ export_pressed
          /\ "success_stored" \in page
          /\ expenses # <<>>
          /\ expenses[Len(expenses)] =
                Row(expense_data, category, raw_text, uploaded_file)
          /\ expenses' = expenses]_vars

\* an export failed and the stored row is still the last row of the table
C10_Witness ==
    /\ pc = "cleanup"
    /\ export_calls # <<>>
    /\ ~export_calls[1].result.value
    /\ expenses # <<>>
    /\ expenses[Len(expenses)] = Row(expense_data, category, raw_text, uploaded_file)

=============================================================================
